---- MODULE Spec2Model ----
(***************************************************************************)
(* Checkout store (EnhancedBusinessAgent, ollama_agent.py) and merchant    *)
(* payment agent (MerchantPaymentAgent, merchant_payment_agent.py).        *)
(*                                                                         *)
(* Python dicts and lists are objects with identity: an order keeps        *)
(* references to the checkout's line_items list, to its item dicts and to  *)
(* its customer dict.  The model therefore keeps a heap of list objects    *)
(* (lists) and of item dicts (items); the customer dict of a checkout is   *)
(* created once (line 87) and never rebound, so it is named by the         *)
(* checkout id (customers).  A totals dict is rebuilt, never mutated       *)
(* (lines 301-307), so it is kept by value.                                *)
(*                                                                         *)
(* Money is kept in mills (1/1000 of a currency unit) before rounding and  *)
(* in cents after round(x, 2).                                             *)
(***************************************************************************)
EXTENDS Integers, Sequences, FiniteSets, TLC

\* ---- bounds of the model ----
\* int(time.time()) ranges over 1..MaxTime
MaxTime == 2
\* quantities, passed to the tools and stored, range over 0..MaxQty
MaxQty == 2

CheckoutIds == {"c1"}
ProductIds == {"p1"}
SessionIds == {"default"}
Quantities == 0..MaxQty
Emails == {"a@x"}
\* None (the default) or an address dict
NoAddress == "None"
Addresses == {NoAddress, "addr"}
PaymentTokens == {"mock_token"}

\* ---- program constants ----
\* item_price = 5.00, in mills
item_price == 5000
\* shipping = 5.00, in mills
flat_shipping == 5000
\* tax = subtotal * 0.10
tax_percent == 10

ListRefs == 1..(Cardinality(CheckoutIds) + MaxTime + 1)
ItemRefs == 1..(Cardinality(ProductIds) * (Cardinality(CheckoutIds) + MaxTime) + 1)

NoError == "ok"
ErrNotFound == "Checkout not found"
ErrProductNotFound == "Product not found in checkout"
ErrEmpty == "Checkout is empty"
ErrEmail == "Customer email required"
ErrNotReady == "Checkout not ready for completion"

VARIABLES
    checkouts,    \* self.checkouts: checkout_id -> checkout dict
    customers,    \* the customer dict object of each checkout
    lists,        \* heap of list objects: ref -> sequence of item refs
    items,        \* heap of line-item dicts: ref -> [product_id, quantity, line_total]
    orders,       \* self.orders: order id (the second it was created in) -> order dict
    now,          \* int(time.time())
    pending_otps, \* self.pending_otps: mandate_id -> otp
    consumed,     \* mandate_id -> the code verify_otp last accepted, until a new one is generated
    outcome,      \* the last payment-agent call and what it returned
    verifiers,    \* thread -> frame of its verify_otp call in progress
    adders,       \* thread -> frame of its add_to_checkout call in progress
    added         \* the add_to_checkout calls threads have begun: their number and,
                  \* per (checkout_id, product_id), the sum of their quantities

checkoutVars == <<checkouts, customers, lists, items, orders, now>>
paymentVars == <<pending_otps, consumed, outcome>>
threadVars == <<verifiers, adders, added>>
vars == <<checkouts, customers, lists, items, orders, now, pending_otps, consumed, outcome,
          verifiers, adders, added>>

\* ---- helpers ----
Range(s) == {s[i] : i \in 1..Len(s)}

Put(f, k, v) == [x \in DOMAIN f \cup {k} |-> IF x = k THEN v ELSE f[x]]

Restrict(f, S) == [x \in S |-> f[x]]

Min(S) == CHOOSE x \in S : \A y \in S : x <= y

RECURSIVE SumOver(_, _)
SumOver(f, s) == IF s = <<>> THEN 0 ELSE f[Head(s)] + SumOver(f, Tail(s))

\* round(x, 2): mills to cents, ties to even
Round2(m) ==
    LET q == m \div 10
        r == m % 10
    IN  IF r < 5 THEN q
        ELSE IF r > 5 THEN q + 1
        ELSE IF q % 2 = 0 THEN q ELSE q + 1

RECURSIVE SetToSeq(_)
SetToSeq(S) ==
    IF S = {} THEN <<>>
    ELSE LET x == CHOOSE y \in S : TRUE IN <<x>> \o SetToSeq(S \ {x})

RECURSIVE SortedSeq(_)
SortedSeq(S) == IF S = {} THEN <<>> ELSE <<Min(S)>> \o SortedSeq(S \ {Min(S)})

RECURSIVE Dedupe(_)
Dedupe(s) ==
    IF s = <<>> THEN <<>>
    ELSE LET d == Dedupe(SubSeq(s, 1, Len(s) - 1))
             x == s[Len(s)]
         IN  IF x \in Range(d) THEN d ELSE Append(d, x)

RECURSIVE Flatten(_)
Flatten(ss) == IF ss = <<>> THEN <<>> ELSE Head(ss) \o Flatten(Tail(ss))

IndexOf(s, x) == CHOOSE i \in 1..Len(s) : s[i] = x

EmptyDict == [x \in {} |-> 0]

\* the program state the checkout tools work on
State ==
    [checkouts |-> checkouts, customers |-> customers, lists |-> lists,
     items |-> items, orders |-> orders]

\* Objects no checkout and no order refers to are garbage; the live ones are
\* renamed in the order a walk from the checkouts and then the orders meets
\* them, so that two heaps that differ only in addresses are one state.
Normalize(st) ==
    LET cids == SetToSeq(DOMAIN st.checkouts)
        oids == SortedSeq(DOMAIN st.orders)
        roots == [i \in 1..Len(cids) |-> st.checkouts[cids[i]].line_items]
                 \o [i \in 1..Len(oids) |-> st.orders[oids[i]].items]
        lo == Dedupe(roots)
        io == Dedupe(Flatten([i \in 1..Len(lo) |-> st.lists[lo[i]]]))
    IN  [checkouts |-> [c \in DOMAIN st.checkouts |->
                          [st.checkouts[c] EXCEPT !.line_items = IndexOf(lo, @)]],
         customers |-> st.customers,
         lists |-> [l \in 1..Len(lo) |->
                      [j \in 1..Len(st.lists[lo[l]]) |-> IndexOf(io, st.lists[lo[l]][j])]],
         items |-> [r \in 1..Len(io) |-> st.items[io[r]]],
         orders |-> [o \in DOMAIN st.orders |->
                       [st.orders[o] EXCEPT !.items = IndexOf(lo, @)]]]

\* ---- EnhancedBusinessAgent ----

\* totals whose total leaves the shipping out
Totals_total_without_shipping(subtotal) ==
    LET tax == (subtotal * tax_percent) \div 100
        shipping == IF subtotal > 0 THEN flat_shipping ELSE 0
        total == subtotal + tax
    IN  [subtotal |-> Round2(subtotal), tax |-> Round2(tax),
         shipping |-> Round2(shipping), total |-> Round2(total), currency |-> "USD"]

\* totals that charge the flat shipping fee on an empty cart too
Totals_always_shipping(subtotal) ==
    LET tax == (subtotal * tax_percent) \div 100
        shipping == IF subtotal >= 0 THEN flat_shipping ELSE 0
        total == subtotal + tax + shipping
    IN  [subtotal |-> Round2(subtotal), tax |-> Round2(tax),
         shipping |-> Round2(shipping), total |-> Round2(total), currency |-> "USD"]

\* lines 297-307: tax, shipping and total from the subtotal, each rounded
Totals(subtotal) ==
    LET tax == (subtotal * tax_percent) \div 100
        shipping == IF subtotal > 0 THEN flat_shipping ELSE 0
        total == subtotal + tax + shipping
    IN  [subtotal |-> Round2(subtotal), tax |-> Round2(tax),
         shipping |-> Round2(shipping), total |-> Round2(total), currency |-> "USD"]

\* line 294
LineTotal(quantity) == item_price * quantity

_recalculate_checkout(st, checkout_id) ==
    LET l == st.lists[st.checkouts[checkout_id].line_items]
        its == [r \in DOMAIN st.items |->
                  IF r \in Range(l)
                  THEN [st.items[r] EXCEPT !.line_total = LineTotal(st.items[r].quantity)]
                  ELSE st.items[r]]
        subtotal == SumOver([r \in DOMAIN its |-> its[r].line_total], l)
    IN  [st EXCEPT !.items = its, !.checkouts[checkout_id].totals = Totals(subtotal)]

\* lines 81-89
NewCheckout(checkout_id, session_id, l) ==
    [id |-> checkout_id, session_id |-> session_id, line_items |-> l, currency |-> "USD",
     status |-> "incomplete", totals |-> EmptyDict]

\* positions in the checkout's list of the items with this product_id
Matches(st, checkout_id, product_id) ==
    LET l == st.lists[st.checkouts[checkout_id].line_items]
    IN  {i \in 1..Len(l) : st.items[l[i]].product_id = product_id}

\* an add_to_checkout that overwrites the quantity of a product already in the cart
add_to_checkout_replaces(st, checkout_id, product_id, quantity, session_id) ==
    LET st1 == IF checkout_id \in DOMAIN st.checkouts THEN st
               ELSE LET l == Min(ListRefs \ DOMAIN st.lists)
                    IN  [st EXCEPT
                           !.checkouts = Put(@, checkout_id, NewCheckout(checkout_id, session_id, l)),
                           !.customers = Put(@, checkout_id, EmptyDict),
                           !.lists = Put(@, l, <<>>)]
        lref == st1.checkouts[checkout_id].line_items
        hits == Matches(st1, checkout_id, product_id)
    IN  IF hits # {}
        THEN LET r == st1.lists[lref][Min(hits)]
             IN  [st |-> _recalculate_checkout(
                            [st1 EXCEPT !.items[r].quantity = quantity], checkout_id),
                  error |-> NoError]
        ELSE LET r == Min(ItemRefs \ DOMAIN st1.items)
             IN  [st |-> _recalculate_checkout(
                            [st1 EXCEPT
                               !.items = Put(@, r, [product_id |-> product_id,
                                                    quantity |-> quantity, line_total |-> 0]),
                               !.lists[lref] = Append(@, r)], checkout_id),
                  error |-> NoError]

add_to_checkout(st, checkout_id, product_id, quantity, session_id) ==
    LET st1 == IF checkout_id \in DOMAIN st.checkouts THEN st
               ELSE LET l == Min(ListRefs \ DOMAIN st.lists)
                    IN  [st EXCEPT
                           !.checkouts = Put(@, checkout_id, NewCheckout(checkout_id, session_id, l)),
                           !.customers = Put(@, checkout_id, EmptyDict),
                           !.lists = Put(@, l, <<>>)]
        lref == st1.checkouts[checkout_id].line_items
        hits == Matches(st1, checkout_id, product_id)
    IN  IF hits # {}
        THEN LET r == st1.lists[lref][Min(hits)]
             IN  [st |-> _recalculate_checkout(
                            [st1 EXCEPT !.items[r].quantity = @ + quantity], checkout_id),
                  error |-> NoError]
        ELSE LET r == Min(ItemRefs \ DOMAIN st1.items)
             IN  \* the new dict has no line_total until the recalculation sets it
                 [st |-> _recalculate_checkout(
                            [st1 EXCEPT
                               !.items = Put(@, r, [product_id |-> product_id,
                                                    quantity |-> quantity, line_total |-> 0]),
                               !.lists[lref] = Append(@, r)], checkout_id),
                  error |-> NoError]

\* a remove_from_checkout that reports success for a checkout id it does not know
remove_from_checkout_missing_ok(st, checkout_id, product_id) ==
    IF checkout_id \notin DOMAIN st.checkouts
    THEN [st |-> st, error |-> NoError]
    ELSE LET lref == st.checkouts[checkout_id].line_items
             l == Min(ListRefs \ DOMAIN st.lists)
             keep(r) == st.items[r].product_id # product_id
         IN  [st |-> _recalculate_checkout(
                        [st EXCEPT !.lists = Put(@, l, SelectSeq(st.lists[lref], keep)),
                                   !.checkouts[checkout_id].line_items = l], checkout_id),
              error |-> NoError]

remove_from_checkout(st, checkout_id, product_id) ==
    IF checkout_id \notin DOMAIN st.checkouts
    THEN [st |-> st, error |-> ErrNotFound]
    ELSE LET old == st.lists[st.checkouts[checkout_id].line_items]
             keep(r) == st.items[r].product_id # product_id
             l == Min(ListRefs \ DOMAIN st.lists)
         IN  [st |-> _recalculate_checkout(
                        [st EXCEPT !.lists = Put(@, l, SelectSeq(old, keep)),
                                   !.checkouts[checkout_id].line_items = l], checkout_id),
              error |-> NoError]

\* an update_checkout without the quantity-0 case of line 149
update_checkout_no_zero_case(st, checkout_id, product_id, quantity) ==
    IF checkout_id \notin DOMAIN st.checkouts
    THEN [st |-> st, error |-> ErrNotFound]
    ELSE LET lref == st.checkouts[checkout_id].line_items
             hits == Matches(st, checkout_id, product_id)
         IN  IF hits # {}
             THEN LET r == st.lists[lref][Min(hits)]
                  IN  [st |-> _recalculate_checkout(
                                 [st EXCEPT !.items[r].quantity = quantity], checkout_id),
                       error |-> NoError]
             ELSE [st |-> st, error |-> ErrProductNotFound]

\* line 150 is taken as a plain call of remove_from_checkout
update_checkout(st, checkout_id, product_id, quantity) ==
    IF quantity = 0 THEN remove_from_checkout(st, checkout_id, product_id)
    ELSE IF checkout_id \notin DOMAIN st.checkouts
    THEN [st |-> st, error |-> ErrNotFound]
    ELSE LET lref == st.checkouts[checkout_id].line_items
             hits == Matches(st, checkout_id, product_id)
         IN  IF hits # {}
             THEN LET r == st.lists[lref][Min(hits)]
                  IN  [st |-> _recalculate_checkout(
                                 [st EXCEPT !.items[r].quantity = quantity], checkout_id),
                       error |-> NoError]
             ELSE [st |-> st, error |-> ErrProductNotFound]

get_checkout(st, checkout_id) ==
    IF checkout_id \notin DOMAIN st.checkouts
    THEN [st |-> st, error |-> ErrNotFound]
    ELSE [st |-> st, error |-> NoError]

update_customer_details(st, checkout_id, email, shipping_address) ==
    IF checkout_id \notin DOMAIN st.checkouts
    THEN [st |-> st, error |-> ErrNotFound]
    ELSE LET c1 == Put(st.customers[checkout_id], "email", email)
             c2 == IF shipping_address # NoAddress
                   THEN Put(c1, "shipping_address", shipping_address) ELSE c1
         IN  [st |-> [st EXCEPT !.customers[checkout_id] = c2], error |-> NoError]

\* a start_payment that tests the customer email before the line items
start_payment_email_first(st, checkout_id) ==
    IF checkout_id \notin DOMAIN st.checkouts
    THEN [st |-> st, error |-> ErrNotFound]
    ELSE IF "email" \notin DOMAIN st.customers[checkout_id]
    THEN [st |-> st, error |-> ErrEmail]
    ELSE IF st.lists[st.checkouts[checkout_id].line_items] = <<>>
    THEN [st |-> st, error |-> ErrEmpty]
    ELSE [st |-> [st EXCEPT !.checkouts[checkout_id].status = "ready_for_payment"],
          error |-> NoError]

start_payment(st, checkout_id) ==
    IF checkout_id \notin DOMAIN st.checkouts
    THEN [st |-> st, error |-> ErrNotFound]
    ELSE IF st.lists[st.checkouts[checkout_id].line_items] = <<>>
    THEN [st |-> st, error |-> ErrEmpty]
    ELSE IF "email" \notin DOMAIN st.customers[checkout_id]
    THEN [st |-> st, error |-> ErrEmail]
    ELSE [st |-> [st EXCEPT !.checkouts[checkout_id].status = "ready_for_payment"],
          error |-> NoError]

\* a guard that only refuses checkouts that never began payment
ReadyForCompletion_not_incomplete(status) == status # "incomplete"

\* line 248
ReadyForCompletion(status) == status = "ready_for_payment"

\* t is int(time.time()) at the call
complete_checkout(st, checkout_id, payment_token, t) ==
    IF checkout_id \notin DOMAIN st.checkouts
    THEN [st |-> st, error |-> ErrNotFound]
    ELSE IF ~ReadyForCompletion(st.checkouts[checkout_id].status)
    THEN [st |-> st, error |-> ErrNotReady]
    ELSE LET checkout == st.checkouts[checkout_id]
             order == [id |-> t, checkout_id |-> checkout_id,
                       items |-> checkout.line_items, customer |-> checkout_id,
                       totals |-> checkout.totals, payment_token |-> payment_token,
                       status |-> "completed", created_at |-> t]
         IN  [st |-> [st EXCEPT !.orders = Put(@, t, order),
                                !.checkouts[checkout_id].status = "completed"],
              error |-> NoError]

\* ---- the tool calls as steps ----
\* a call that returns an error leaves the store, which is already in normal form
Commit(st) ==
    \E n \in {IF st = State THEN st ELSE Normalize(st)} :
        /\ checkouts' = n.checkouts
        /\ customers' = n.customers
        /\ lists' = n.lists
        /\ items' = n.items
        /\ orders' = n.orders

QuantitiesInBound(st) ==
    \A r \in DOMAIN st.items : st.items[r].quantity \in Quantities

AddToCheckout ==
    \E c \in CheckoutIds, p \in ProductIds, q \in Quantities, s \in SessionIds :
        \E r \in {add_to_checkout(State, c, p, q, s)} :
            /\ QuantitiesInBound(r.st)
            /\ Commit(r.st)
            /\ UNCHANGED <<now, pending_otps, consumed, outcome,
                       verifiers, adders, added>>

RemoveFromCheckout ==
    \E c \in CheckoutIds, p \in ProductIds :
        \E r \in {remove_from_checkout(State, c, p)} :
            /\ Commit(r.st)
            /\ UNCHANGED <<now, pending_otps, consumed, outcome,
                       verifiers, adders, added>>

UpdateCheckout ==
    \E c \in CheckoutIds, p \in ProductIds, q \in Quantities :
        \E r \in {update_checkout(State, c, p, q)} :
            /\ Commit(r.st)
            /\ UNCHANGED <<now, pending_otps, consumed, outcome,
                       verifiers, adders, added>>

GetCheckout ==
    \E c \in CheckoutIds :
        \E r \in {get_checkout(State, c)} :
            /\ Commit(r.st)
            /\ UNCHANGED <<now, pending_otps, consumed, outcome,
                       verifiers, adders, added>>

UpdateCustomerDetails ==
    \E c \in CheckoutIds, e \in Emails, a \in Addresses :
        \E r \in {update_customer_details(State, c, e, a)} :
            /\ Commit(r.st)
            /\ UNCHANGED <<now, pending_otps, consumed, outcome,
                       verifiers, adders, added>>

StartPayment ==
    \E c \in CheckoutIds :
        \E r \in {start_payment(State, c)} :
            /\ Commit(r.st)
            /\ UNCHANGED <<now, pending_otps, consumed, outcome,
                       verifiers, adders, added>>

CompleteCheckout ==
    \E c \in CheckoutIds, tok \in PaymentTokens :
        \E r \in {complete_checkout(State, c, tok, now)} :
            /\ Commit(r.st)
            /\ UNCHANGED <<now, pending_otps, consumed, outcome,
                       verifiers, adders, added>>

\* a second of wall-clock time passes between two calls
Tick ==
    /\ now < MaxTime
    /\ now' = now + 1
    /\ UNCHANGED <<checkouts, customers, lists, items, orders,
                   pending_otps, consumed, outcome,
                       verifiers, adders, added>>

\* ---- MerchantPaymentAgent ----
MandateIds == {"m1", "m2"}
\* user_authorization: None, empty, shorter than 10 characters (3 and 9),
\* exactly 10 characters, a plausible signature
NoneAuth == "<None>"
Authorizations == {NoneAuth, "", "sig", "sig-56789", "sig-567890", "signature-0123456789"}
Amounts == {50, 150}
\* the codes generate_otp may draw, and the codes a caller may submit
Otps == {"123456", "654321"}
Codes == Otps \cup {"", "000000"}
\* random.random(), in percent
Draws == {5, 20, 60, 97}
\* line 57
min_signature_length == 10
\* line 76
challenge_amount == 100
\* lines 77, 79 and 145, in percent
high_challenge_probability == 30
low_challenge_probability == 10
success_rate == 95

Mandates ==
    [payment_mandate_id : MandateIds, user_authorization : Authorizations, amount : Amounts]

\* a validator that tests for None only, not for an empty signature or a short one
validate_mandate_signature_none_only(mandate) ==
    mandate.user_authorization # NoneAuth

\* a validator that also refuses a signature of exactly the minimum length
validate_mandate_signature_min_exclusive(mandate) ==
    IF mandate.user_authorization = NoneAuth \/ mandate.user_authorization = "" THEN FALSE
    ELSE IF Len(mandate.user_authorization) <= min_signature_length THEN FALSE
    ELSE TRUE

validate_mandate_signature(mandate) ==
    IF mandate.user_authorization = NoneAuth \/ mandate.user_authorization = "" THEN FALSE
    ELSE IF Len(mandate.user_authorization) < min_signature_length THEN FALSE
    ELSE TRUE

should_raise_otp_challenge(mandate, draw) ==
    LET challenge_probability ==
            IF mandate.amount > challenge_amount THEN high_challenge_probability
            ELSE low_challenge_probability
    IN  draw < challenge_probability

\* the new pending_otps; otp is the code drawn
\* a generate_otp that keeps the code already stored for the mandate
generate_otp_keeps_first(pending, mandate_id, otp) ==
    IF mandate_id \in DOMAIN pending THEN pending ELSE Put(pending, mandate_id, otp)

generate_otp(pending, mandate_id, otp) == Put(pending, mandate_id, otp)

\* a verify_otp that leaves the code in place after accepting it
verify_otp_keeps_code(pending, mandate_id, otp_code) ==
    IF mandate_id \notin DOMAIN pending \/ pending[mandate_id] = ""
    THEN [pending |-> pending, value |-> FALSE]
    ELSE [pending |-> pending, value |-> otp_code = pending[mandate_id]]

\* a verify_otp that drops the stored code on a wrong guess as well
verify_otp_consumes_on_mismatch(pending, mandate_id, otp_code) ==
    IF mandate_id \notin DOMAIN pending \/ pending[mandate_id] = ""
    THEN [pending |-> pending, value |-> FALSE]
    ELSE [pending |-> Restrict(pending, DOMAIN pending \ {mandate_id}),
          value |-> otp_code = pending[mandate_id]]

verify_otp(pending, mandate_id, otp_code) ==
    IF mandate_id \notin DOMAIN pending \/ pending[mandate_id] = ""
    THEN [pending |-> pending, value |-> FALSE]
    ELSE IF otp_code = pending[mandate_id]
    THEN [pending |-> Restrict(pending, DOMAIN pending \ {mandate_id}), value |-> TRUE]
    ELSE [pending |-> pending, value |-> FALSE]

\* the payment_status variant of the receipt
process_payment(mandate, draw) ==
    IF ~validate_mandate_signature(mandate) THEN "Error"
    ELSE IF draw < success_rate THEN "Success"
    ELSE "Failure"

create_otp_challenge(pending, mandate, otp) ==
    generate_otp(pending, mandate.payment_mandate_id, otp)

\* arg is the user_authorization given to process_payment, the otp_code given
\* to verify_otp, and NoArg for the calls that read neither
NoArg == "-"

Outcome(op, mandate_id, arg, value) ==
    [op |-> op, mandate_id |-> mandate_id, arg |-> arg, value |-> value]

BoolStr(b) == IF b THEN "True" ELSE "False"

ShouldRaiseOtpChallenge ==
    \E m \in Mandates, d \in Draws :
        /\ outcome' = Outcome("should_raise_otp_challenge", m.payment_mandate_id,
                              NoArg, BoolStr(should_raise_otp_challenge(m, d)))
        /\ UNCHANGED <<pending_otps, consumed, checkouts, customers, lists, items,
                       orders, now,
                       verifiers, adders, added>>

CreateOtpChallenge ==
    \E m \in Mandates, otp \in Otps :
        /\ pending_otps' = create_otp_challenge(pending_otps, m, otp)
        /\ consumed' = Restrict(consumed, DOMAIN consumed \ {m.payment_mandate_id})
        /\ outcome' = Outcome("create_otp_challenge", m.payment_mandate_id,
                              NoArg, "OTPChallenge")
        /\ UNCHANGED <<checkouts, customers, lists, items, orders, now,
                       verifiers, adders, added>>

VerifyOtp ==
    \E id \in MandateIds, code \in Codes :
        \E r \in {verify_otp(pending_otps, id, code)} :
            /\ pending_otps' = r.pending
            /\ consumed' = IF r.value THEN Put(consumed, id, code) ELSE consumed
            /\ outcome' = Outcome("verify_otp", id, code, BoolStr(r.value))
            /\ UNCHANGED <<checkouts, customers, lists, items, orders, now,
                       verifiers, adders, added>>

ProcessPayment ==
    \E m \in Mandates, d \in Draws :
        /\ outcome' = Outcome("process_payment", m.payment_mandate_id,
                              m.user_authorization, process_payment(m, d))
        /\ UNCHANGED <<pending_otps, consumed, checkouts, customers, lists, items,
                       orders, now,
                       verifiers, adders, added>>

NoOutcome == Outcome("none", "-", NoArg, "-")

\* ---- callers on several threads ----
\* Neither class takes a lock, so a call running on one thread can be
\* preempted between any two of its statements by a call on another.
Threads == {"t1", "t2"}

\* what .get returns for a missing key
NoneOtp == "None"
NoResult == "-"

IdleVerifier ==
    [pc |-> "idle", mandate_id |-> "-", otp_code |-> "-", expected_otp |-> NoneOtp,
     result |-> NoResult]

IdleAdder ==
    [pc |-> "idle", checkout_id |-> "-", product_id |-> "-", quantity |-> 0,
     session_id |-> "-", line_items |-> 0, item |-> 0, loaded |-> 0]

Init ==
    /\ checkouts = EmptyDict
    /\ customers = EmptyDict
    /\ lists = EmptyDict
    /\ items = EmptyDict
    /\ orders = EmptyDict
    /\ now = 1
    /\ pending_otps = EmptyDict
    /\ consumed = EmptyDict
    /\ outcome = NoOutcome
    /\ verifiers = [t \in Threads |-> IdleVerifier]
    /\ adders = [t \in Threads |-> IdleAdder]
    /\ added = [calls |-> 0, quantity |-> EmptyDict]

Next ==
    \/ AddToCheckout
    \/ RemoveFromCheckout
    \/ UpdateCheckout
    \/ GetCheckout
    \/ UpdateCustomerDetails
    \/ StartPayment
    \/ CompleteCheckout
    \/ Tick

Spec == Init /\ [][Next]_vars

PaymentNext ==
    \/ ShouldRaiseOtpChallenge
    \/ CreateOtpChallenge
    \/ VerifyOtp
    \/ ProcessPayment

PaymentSpec == Init /\ [][PaymentNext]_vars

\* ---- verify_otp, statement by statement ----
\* line 95: a thread enters verify_otp(mandate_id, otp_code)
VerifyCall ==
    \E t \in Threads, id \in MandateIds, code \in Codes :
        /\ verifiers[t].pc = "idle"
        /\ verifiers' = [verifiers EXCEPT ![t] =
                            [IdleVerifier EXCEPT !.pc = "read", !.mandate_id = id,
                                                 !.otp_code = code]]
        /\ UNCHANGED <<checkoutVars, paymentVars, adders, added>>

\* line 97: expected_otp = self.pending_otps.get(mandate_id)
VerifyRead ==
    \E t \in Threads :
        /\ verifiers[t].pc = "read"
        /\ verifiers' = [verifiers EXCEPT
                            ![t].pc = "check",
                            ![t].expected_otp =
                                IF verifiers[t].mandate_id \in DOMAIN pending_otps
                                THEN pending_otps[verifiers[t].mandate_id] ELSE NoneOtp]
        /\ UNCHANGED <<checkoutVars, paymentVars, adders, added>>

\* lines 99-103 and 109-110: the two tests on the local expected_otp
VerifyCheck ==
    \E t \in Threads :
        /\ verifiers[t].pc = "check"
        /\ verifiers' = [verifiers EXCEPT ![t] =
                            IF @.expected_otp \in {NoneOtp, ""} THEN
                                [@ EXCEPT !.pc = "done", !.result = "False"]
                            ELSE IF @.otp_code = @.expected_otp THEN
                                [@ EXCEPT !.pc = "delete"]
                            ELSE [@ EXCEPT !.pc = "done", !.result = "False"]]
        /\ UNCHANGED <<checkoutVars, paymentVars, adders, added>>

\* lines 105-107: del self.pending_otps[mandate_id], which raises KeyError
\* when the key is gone, and return True
VerifyDelete ==
    \E t \in Threads :
        /\ verifiers[t].pc = "delete"
        /\ IF verifiers[t].mandate_id \in DOMAIN pending_otps
           THEN /\ pending_otps' = Restrict(pending_otps,
                                            DOMAIN pending_otps \ {verifiers[t].mandate_id})
                /\ verifiers' = [verifiers EXCEPT ![t].pc = "done", ![t].result = "True"]
           ELSE /\ pending_otps' = pending_otps
                /\ verifiers' = [verifiers EXCEPT ![t].pc = "done", ![t].result = "KeyError"]
        /\ UNCHANGED <<checkoutVars, consumed, outcome, adders, added>>

\* the caller has its result
VerifyReturn ==
    \E t \in Threads :
        /\ verifiers[t].pc = "done"
        /\ verifiers' = [verifiers EXCEPT ![t] = IdleVerifier]
        /\ UNCHANGED <<checkoutVars, paymentVars, adders, added>>

\* a challenge is issued while no verify_otp call is in progress
IssueChallenge ==
    /\ \A t \in Threads : verifiers[t].pc = "idle"
    /\ CreateOtpChallenge

VerifyRaceNext ==
    \/ IssueChallenge
    \/ VerifyCall
    \/ VerifyRead
    \/ VerifyCheck
    \/ VerifyDelete
    \/ VerifyReturn

VerifyRaceSpec == Init /\ [][VerifyRaceNext]_vars

\* ---- add_to_checkout, statement by statement ----
\* at most MaxCalls calls of add_to_checkout are begun
MaxCalls == 3

\* line 64: a thread enters add_to_checkout(checkout_id, product_id, quantity, session_id)
AddCall ==
    \E t \in Threads, c \in CheckoutIds, p \in ProductIds, q \in Quantities,
       s \in SessionIds :
        /\ adders[t].pc = "idle"
        /\ added.calls < MaxCalls
        /\ adders' = [adders EXCEPT ![t] =
                         [IdleAdder EXCEPT !.pc = "test", !.checkout_id = c,
                                           !.product_id = p, !.quantity = q,
                                           !.session_id = s]]
        /\ added' = [calls |-> added.calls + 1,
                     quantity |-> Put(added.quantity, <<c, p>>,
                                      q + (IF <<c, p>> \in DOMAIN added.quantity
                                           THEN added.quantity[<<c, p>>] ELSE 0))]
        /\ UNCHANGED <<checkoutVars, paymentVars, verifiers>>

\* line 80: if checkout_id not in self.checkouts
AddTest ==
    \E t \in Threads :
        /\ adders[t].pc = "test"
        /\ adders' = [adders EXCEPT ![t].pc =
                         IF adders[t].checkout_id \in DOMAIN checkouts
                         THEN "fetch" ELSE "create"]
        /\ UNCHANGED <<checkoutVars, paymentVars, verifiers, added>>

\* lines 81-89: self.checkouts[checkout_id] = a new checkout dict, whatever is there
AddCreate ==
    \E t \in Threads :
        /\ adders[t].pc = "create"
        /\ ListRefs \ DOMAIN lists # {}
        /\ LET c == adders[t].checkout_id
               l == Min(ListRefs \ DOMAIN lists)
           IN  /\ checkouts' = Put(checkouts, c, NewCheckout(c, adders[t].session_id, l))
               /\ customers' = Put(customers, c, EmptyDict)
               /\ lists' = Put(lists, l, <<>>)
        /\ adders' = [adders EXCEPT ![t].pc = "fetch"]
        /\ UNCHANGED <<items, orders, now, paymentVars, verifiers, added>>

\* lines 91-95: checkout = self.checkouts[checkout_id] and the search of its
\* line_items for the product
AddFetch ==
    \E t \in Threads :
        /\ adders[t].pc = "fetch"
        /\ LET c == adders[t].checkout_id
               hits == Matches(State, c, adders[t].product_id)
           IN  adders' = [adders EXCEPT ![t] =
                             IF hits # {}
                             THEN [@ EXCEPT !.pc = "load",
                                            !.line_items = checkouts[c].line_items,
                                            !.item = lists[checkouts[c].line_items][Min(hits)]]
                             ELSE [@ EXCEPT !.pc = "append",
                                            !.line_items = checkouts[c].line_items]]
        /\ UNCHANGED <<checkoutVars, paymentVars, verifiers, added>>

\* line 96, item["quantity"] += quantity: the read of item["quantity"]
AddLoad ==
    \E t \in Threads :
        /\ adders[t].pc = "load"
        /\ adders' = [adders EXCEPT ![t].pc = "store",
                                    ![t].loaded = items[adders[t].item].quantity]
        /\ UNCHANGED <<checkoutVars, paymentVars, verifiers, added>>

\* line 96, item["quantity"] += quantity: the write of the sum
AddStore ==
    \E t \in Threads :
        /\ adders[t].pc = "store"
        /\ items' = [items EXCEPT ![adders[t].item].quantity =
                        adders[t].loaded + adders[t].quantity]
        /\ adders' = [adders EXCEPT ![t].pc = "recalc"]
        /\ UNCHANGED <<checkouts, customers, lists, orders, now, paymentVars,
                       verifiers, added>>

\* lines 104-107: checkout["line_items"].append({...}) on the list fetched at line 91
AddAppend ==
    \E t \in Threads :
        /\ adders[t].pc = "append"
        /\ ItemRefs \ DOMAIN items # {}
        /\ LET r == Min(ItemRefs \ DOMAIN items)
           IN  /\ items' = Put(items, r, [product_id |-> adders[t].product_id,
                                           quantity |-> adders[t].quantity,
                                           line_total |-> 0])
               /\ lists' = [lists EXCEPT ![adders[t].line_items] = Append(@, r)]
        /\ adders' = [adders EXCEPT ![t].pc = "recalc"]
        /\ UNCHANGED <<checkouts, customers, orders, now, paymentVars, verifiers, added>>

\* lines 97 and 109: self._recalculate_checkout(checkout_id), on the checkout
\* the store holds now
AddRecalc ==
    \E t \in Threads :
        /\ adders[t].pc = "recalc"
        /\ \E st \in {_recalculate_checkout(State, adders[t].checkout_id)} :
              /\ checkouts' = st.checkouts
              /\ items' = st.items
        /\ adders' = [adders EXCEPT ![t].pc = "return"]
        /\ UNCHANGED <<customers, lists, orders, now, paymentVars, verifiers, added>>

\* lines 98-102 and 110-113: return
AddReturn ==
    \E t \in Threads :
        /\ adders[t].pc = "return"
        /\ adders' = [adders EXCEPT ![t] = IdleAdder]
        /\ UNCHANGED <<checkoutVars, paymentVars, verifiers, added>>

AddRaceNext ==
    \/ AddCall
    \/ AddTest
    \/ AddCreate
    \/ AddFetch
    \/ AddLoad
    \/ AddStore
    \/ AddAppend
    \/ AddRecalc
    \/ AddReturn

AddRaceSpec == Init /\ [][AddRaceNext]_vars

\* ---- properties of the checkout store ----

StatusRank(status) ==
    CASE status = "incomplete" -> 0
      [] status = "ready_for_payment" -> 1
      [] status = "completed" -> 2

\* the line items of a checkout, read through the heap
LineItemsOf(cks, ls, its, c) ==
    [i \in 1..Len(ls[cks[c].line_items]) |-> its[ls[cks[c].line_items][i]]]

\* an order as a reader sees it: its items and customer read through the heap
OrderView(ords, ls, its, custs, o) ==
    [items |-> [i \in 1..Len(ls[ords[o].items]) |-> its[ls[ords[o].items][i]]],
     customer |-> custs[ords[o].customer],
     totals |-> ords[o].totals,
     checkout_id |-> ords[o].checkout_id,
     payment_token |-> ords[o].payment_token,
     status |-> ords[o].status]

\* C1: the status of a checkout never moves backwards in the order
\* incomplete, ready_for_payment, completed.
C1_StatusForwardOnly ==
    [][\A c \in DOMAIN checkouts :
         StatusRank(checkouts'[c].status) >= StatusRank(checkouts[c].status)]_vars

\* C2: the order ledger never holds two orders of the same checkout_id.
C2_OneOrderPerCheckout ==
    \A o1 \in DOMAIN orders, o2 \in DOMAIN orders :
        orders[o1].checkout_id = orders[o2].checkout_id => o1 = o2

\* C3: in every reachable state, complete_checkout on a checkout whose status
\* is not ready_for_payment returns the not-ready error and changes nothing
\* (status and orders included); and where complete_checkout succeeds, it
\* stores one order and a second complete_checkout on the same checkout right
\* after it fails and stores none.
C3_CompleteNeedsReady ==
    \A c \in DOMAIN checkouts, tok \in PaymentTokens :
        LET r == complete_checkout(State, c, tok, now)
        IN  /\ checkouts[c].status # "ready_for_payment"
               => (r.error = ErrNotReady /\ r.st = State)
            /\ r.error = NoError
               => /\ DOMAIN r.st.orders = DOMAIN orders \cup {now}
                  /\ \A t \in now..MaxTime :
                        LET r2 == complete_checkout(r.st, c, tok, t)
                        IN  r2.error = ErrNotReady /\ r2.st = r.st

\* complete_checkout has stored an order, and calling it again is refused
C3_Witness ==
    \E c \in DOMAIN checkouts, tok \in PaymentTokens :
        /\ checkouts[c].status = "completed"
        /\ Cardinality(DOMAIN orders) = 1
        /\ complete_checkout(State, c, tok, now).error = ErrNotReady

\* C4: no step (add_to_checkout, remove_from_checkout and update_checkout are
\* the steps that write line items) changes the line items or the totals of
\* a completed checkout.
C4_CompletedCheckoutFrozen ==
    [][\A c \in DOMAIN checkouts :
         checkouts[c].status = "completed"
         => (/\ LineItemsOf(checkouts', lists', items', c)
                  = LineItemsOf(checkouts, lists, items, c)
             /\ checkouts'[c].totals = checkouts[c].totals)]_vars

\* C5: a stored order stays in the ledger and its items, customer and totals
\* never change.
C5_OrderImmutable ==
    [][\A o \in DOMAIN orders :
         /\ o \in DOMAIN orders'
         /\ OrderView(orders', lists', items', customers', o)
              = OrderView(orders, lists, items, customers, o)]_vars

\* C6: in every state the stored totals of a checkout satisfy
\* total = subtotal + tax + shipping, and the subtotal (cents) is the sum of
\* the line_total (mills) of its current line items.
C6_TotalsAddUp ==
    \A c \in DOMAIN checkouts :
        LET t == checkouts[c].totals
            l == lists[checkouts[c].line_items]
        IN  /\ t.total = t.subtotal + t.tax + t.shipping
            /\ t.subtotal * 10 = SumOver([r \in DOMAIN items |-> items[r].line_total], l)

\* a checkout with a line item and a positive subtotal
C6_Witness ==
    \E c \in DOMAIN checkouts :
        /\ lists[checkouts[c].line_items] # <<>>
        /\ checkouts[c].totals.subtotal > 0
        /\ checkouts[c].totals.total > checkouts[c].totals.subtotal

\* C7: the stored tax is 10% of the subtotal, the shipping is 5.00 when the
\* subtotal is positive and 0 otherwise, and the subtotal is 5.00 per unit;
\* one line item of quantity 2 gives 10.00, 1.00, 5.00 and 16.00 (in cents),
\* and an empty checkout has all-zero totals.
C7_PricingRule ==
    \A c \in DOMAIN checkouts :
        LET t == checkouts[c].totals
            l == LineItemsOf(checkouts, lists, items, c)
        IN  /\ t.subtotal = 500 * SumOver([i \in 1..Len(l) |-> l[i].quantity],
                                          [i \in 1..Len(l) |-> i])
            /\ t.tax * 10 = t.subtotal
            /\ t.shipping = IF t.subtotal > 0 THEN 500 ELSE 0
            /\ t.total = t.subtotal + t.tax + t.shipping
            /\ (Len(l) = 1 /\ l[1].quantity = 2)
               => (t.subtotal = 1000 /\ t.tax = 100 /\ t.shipping = 500 /\ t.total = 1600)
            /\ l = <<>>
               => (t.subtotal = 0 /\ t.tax = 0 /\ t.shipping = 0 /\ t.total = 0)

\* one line item of quantity 2, priced 16.00 in total
C7_Witness ==
    \E c \in DOMAIN checkouts :
        /\ Len(LineItemsOf(checkouts, lists, items, c)) = 1
        /\ LineItemsOf(checkouts, lists, items, c)[1].quantity = 2
        /\ checkouts[c].totals.total = 1600

\* the items of product p in checkout c of the store st, in list order
ItemsOfProduct(st, c, p) ==
    LET l == st.lists[st.checkouts[c].line_items]
        isP(r) == st.items[r].product_id = p
        ofP == SelectSeq(l, isP)
    IN  [i \in 1..Len(ofP) |-> st.items[ofP[i]]]

\* C11: in every reachable state, add_to_checkout with a quantity <= 0 is
\* refused with an InvalidQuantity error and leaves the store as it was.
C11_NonPositiveQuantityRejected ==
    \A c \in CheckoutIds, p \in ProductIds, s \in SessionIds :
        \A q \in {x \in Quantities : x <= 0} :
            LET r == add_to_checkout(State, c, p, q, s)
            IN  r.error = "InvalidQuantity" /\ r.st = State

\* C12: every line item of every checkout has quantity >= 1.
C12_QuantityAtLeastOne ==
    \A c \in DOMAIN checkouts :
        \A i \in 1..Len(LineItemsOf(checkouts, lists, items, c)) :
            LineItemsOf(checkouts, lists, items, c)[i].quantity >= 1

\* C13: in every reachable state, start_payment on a checkout without line
\* items returns the empty-checkout error, on a checkout with line items but
\* no customer email the email-required error, both without any change; with
\* line items and an email it succeeds and changes the status to
\* ready_for_payment and nothing else, and a second call right after it
\* succeeds and changes nothing.
C13_StartPayment ==
    \A c \in DOMAIN checkouts :
        \A r \in {start_payment(State, c)} :
            LET empty == lists[checkouts[c].line_items] = <<>>
                email == "email" \in DOMAIN customers[c]
            IN  /\ empty => (r.error = ErrEmpty /\ r.st = State)
                /\ (~empty /\ ~email) => (r.error = ErrEmail /\ r.st = State)
                /\ (~empty /\ email)
                   => /\ r.error = NoError
                      /\ r.st = [State EXCEPT !.checkouts[c].status = "ready_for_payment"]
                      /\ start_payment(r.st, c) = [st |-> r.st, error |-> NoError]

\* start_payment has made a checkout ready_for_payment, and a further call changes nothing
C13_Witness ==
    \E c \in DOMAIN checkouts :
        /\ checkouts[c].status = "ready_for_payment"
        /\ lists[checkouts[c].line_items] # <<>>
        /\ start_payment(State, c) = [st |-> State, error |-> NoError]

\* C14: in every reachable state, update_checkout with quantity 0 and
\* remove_from_checkout, given the same checkout id and product id, return
\* the same error and leave the same store (absent checkout and absent
\* product included).
C14_UpdateZeroIsRemove ==
    \A c \in CheckoutIds, p \in ProductIds :
        \A u \in {update_checkout(State, c, p, 0)}, r \in {remove_from_checkout(State, c, p)} :
            u.error = r.error /\ u.st = r.st

\* a checkout holds the product, and update_checkout with quantity 0 empties it
C14_Witness ==
    \E c \in DOMAIN checkouts, p \in ProductIds :
        /\ Matches(State, c, p) # {}
        /\ LET u == update_checkout(State, c, p, 0)
           IN  u.error = NoError /\ u.st.lists[u.st.checkouts[c].line_items] = <<>>

\* C15: in every reachable state and for all quantities q1, q2 >= 1,
\* add_to_checkout(q1) then add_to_checkout(q2) for one product leaves a
\* single line item of that product whose quantity is the quantity after the
\* first call plus q2 (q1 + q2 when the product was not in the cart), while
\* add_to_checkout(q1) then update_checkout(q2) leaves a single line item of
\* quantity q2.
C15_AddAccumulatesUpdateReplaces ==
    \A c \in CheckoutIds, p \in ProductIds, s \in SessionIds :
        \A before \in {IF c \in DOMAIN checkouts /\ Matches(State, c, p) # {}
                       THEN ItemsOfProduct(State, c, p)[1].quantity ELSE 0} :
            \A q1 \in Quantities \ {0} :
                \A a1 \in {add_to_checkout(State, c, p, q1, s).st} :
                    /\ \A i1 \in {ItemsOfProduct(a1, c, p)} :
                          Len(i1) = 1 /\ i1[1].quantity = before + q1
                    /\ \A q2 \in Quantities \ {0} :
                          /\ \A i2 \in {ItemsOfProduct(add_to_checkout(a1, c, p, q2, s).st, c, p)} :
                                Len(i2) = 1 /\ i2[1].quantity = before + q1 + q2
                          /\ \A u2 \in {ItemsOfProduct(update_checkout(a1, c, p, q2).st, c, p)} :
                                Len(u2) = 1 /\ u2[1].quantity = q2

\* a cart holding quantity 1 of a product: adding 1 gives 2, updating to 1 gives 1
C15_Witness ==
    \E c \in DOMAIN checkouts, p \in ProductIds, s \in SessionIds :
        /\ Len(ItemsOfProduct(State, c, p)) = 1
        /\ ItemsOfProduct(State, c, p)[1].quantity = 1
        /\ ItemsOfProduct(add_to_checkout(State, c, p, 1, s).st, c, p)[1].quantity = 2
        /\ ItemsOfProduct(update_checkout(State, c, p, 1).st, c, p)[1].quantity = 1

\* C19: every successful complete_checkout (the step that takes a checkout
\* from ready_for_payment to completed) stores its order under an order id
\* that was not in use, so the ledger grows by exactly one order and every
\* order stored before is still there under its id.
C19_LedgerAppendOnly ==
    [][\A c \in DOMAIN checkouts :
         (/\ checkouts[c].status = "ready_for_payment"
          /\ c \in DOMAIN checkouts'
          /\ checkouts'[c].status = "completed")
         => /\ DOMAIN orders \subseteq DOMAIN orders'
            /\ Cardinality(DOMAIN orders') = Cardinality(DOMAIN orders) + 1]_vars

\* a store as its readers see it: every checkout with its line items and
\* customer read through the heap, and every order likewise
StoreView(st) ==
    [checkouts |-> [c \in DOMAIN st.checkouts |->
                      [checkout |-> [st.checkouts[c] EXCEPT !.line_items = 0],
                       line_items |-> LineItemsOf(st.checkouts, st.lists, st.items, c),
                       customer |-> st.customers[c]]],
     orders |-> [o \in DOMAIN st.orders |->
                   OrderView(st.orders, st.lists, st.items, st.customers, o)]]

NotFoundUnchanged(r) == r.error = ErrNotFound /\ r.st = State

\* C22: in every reachable state, for a checkout id that is not in the
\* store, remove_from_checkout, update_checkout (any quantity), get_checkout,
\* update_customer_details, start_payment and complete_checkout each return
\* the not-found error and leave the store as it was, so none of them
\* creates a checkout; for a checkout in the store that does not hold the
\* product, remove_from_checkout succeeds and every checkout and order reads
\* as before, and update_checkout with a quantity > 0 returns the
\* product-not-found error and leaves the store as it was.
C22_OnlyAddCreates ==
    /\ \A c \in CheckoutIds \ DOMAIN checkouts :
          /\ \A p \in ProductIds :
                /\ NotFoundUnchanged(remove_from_checkout(State, c, p))
                /\ \A q \in Quantities : NotFoundUnchanged(update_checkout(State, c, p, q))
          /\ NotFoundUnchanged(get_checkout(State, c))
          /\ \A e \in Emails, a \in Addresses :
                NotFoundUnchanged(update_customer_details(State, c, e, a))
          /\ NotFoundUnchanged(start_payment(State, c))
          /\ \A tok \in PaymentTokens : NotFoundUnchanged(complete_checkout(State, c, tok, now))
    /\ \A c \in DOMAIN checkouts, p \in ProductIds :
          Matches(State, c, p) = {}
          => /\ \A r \in {remove_from_checkout(State, c, p)} :
                   r.error = NoError /\ StoreView(r.st) = StoreView(State)
             /\ \A q \in Quantities \ {0} :
                   \A u \in {update_checkout(State, c, p, q)} :
                      u.error = ErrProductNotFound /\ u.st = State

\* a checkout that has lost its product: removing it again succeeds and
\* changes nothing, updating it is refused
C22_Witness ==
    \E c \in DOMAIN checkouts, p \in ProductIds :
        /\ Matches(State, c, p) = {}
        /\ remove_from_checkout(State, c, p).error = NoError
        /\ update_checkout(State, c, p, 1).error = ErrProductNotFound

\* C23: every checkout whose status is ready_for_payment has at least one
\* line item and a customer email, and every stored order has at least one
\* item.
C23_ReadyHasItemsAndEmail ==
    /\ \A c \in DOMAIN checkouts :
          checkouts[c].status = "ready_for_payment"
          => /\ lists[checkouts[c].line_items] # <<>>
             /\ "email" \in DOMAIN customers[c]
    /\ \A o \in DOMAIN orders : lists[orders[o].items] # <<>>

\* ---- properties of the payment agent ----

\* C8: process_payment on a mandate whose user_authorization is empty returns
\* an Error receipt, never Success or Failure, and leaves pending_otps as it
\* was (no challenge is issued for it).
C8_EmptyAuthorizationRejected ==
    [][(outcome'.op = "process_payment" /\ outcome'.arg = "")
         => (outcome'.value = "Error" /\ pending_otps' = pending_otps)]_vars

C8_Witness ==
    /\ outcome.op = "process_payment"
    /\ outcome.arg = ""
    /\ outcome.value = "Error"
    /\ outcome.mandate_id \in DOMAIN pending_otps

\* C9: once verify_otp has accepted a code for a mandate, a further
\* verify_otp with the same mandate id and the same code returns False, as
\* long as no new code has been generated for that mandate.
C9_OtpSingleUse ==
    [][\A id \in DOMAIN consumed :
         (outcome'.op = "verify_otp" /\ outcome'.mandate_id = id
            /\ outcome'.arg = consumed[id])
         => outcome'.value = "False"]_vars

C9_Witness ==
    /\ outcome.op = "verify_otp"
    /\ outcome.value = "False"
    /\ outcome.mandate_id \in DOMAIN consumed
    /\ consumed[outcome.mandate_id] = outcome.arg

\* C10: process_payment returns a Success or Failure receipt for a mandate
\* only when no challenge code is outstanding for it.
C10_NoSettlementWhileChallenged ==
    ~(/\ outcome.op = "process_payment"
      /\ outcome.value \in {"Success", "Failure"}
      /\ outcome.mandate_id \in DOMAIN pending_otps)

\* C18 (as claimed): whenever create_otp_challenge is called for a mandate id
\* that has a stored code, verify_otp with that earlier code returns False
\* afterwards.
C18_PriorCodeRejected ==
    [][\A id \in DOMAIN pending_otps :
         (outcome' # outcome /\ outcome'.op = "create_otp_challenge"
            /\ outcome'.mandate_id = id)
         => ~verify_otp(pending_otps', id, pending_otps[id]).value]_vars

\* C18: in every reachable state, create_otp_challenge for a mandate id that
\* has a stored code stores the newly drawn code in its place and changes no
\* other entry, and verify_otp with the earlier code then returns True
\* exactly when the new code equals the earlier one, so it returns False
\* whenever the two differ; the new code is accepted.
C18_NewChallengeReplacesCode ==
    \A m \in Mandates, otp \in Otps :
        LET id == m.payment_mandate_id
            after == create_otp_challenge(pending_otps, m, otp)
        IN  id \in DOMAIN pending_otps
            => /\ DOMAIN after = DOMAIN pending_otps
               /\ after[id] = otp
               /\ \A other \in DOMAIN pending_otps \ {id} : after[other] = pending_otps[other]
               /\ verify_otp(after, id, pending_otps[id]).value = (otp = pending_otps[id])
               /\ verify_otp(after, id, otp).value

\* a challenge has been issued, and issuing another with a different code
\* makes verify_otp refuse the stored one
C18_Witness ==
    /\ outcome.op = "create_otp_challenge"
    /\ outcome.mandate_id \in DOMAIN pending_otps
    /\ \E m \in Mandates, otp \in Otps :
          /\ m.payment_mandate_id = outcome.mandate_id
          /\ otp # pending_otps[outcome.mandate_id]
          /\ ~verify_otp(create_otp_challenge(pending_otps, m, otp),
                         outcome.mandate_id, pending_otps[outcome.mandate_id]).value

\* C20: every verify_otp call returns True and deletes the entry of the
\* mandate id when the submitted code equals the stored one, and otherwise
\* (no stored code, or a different code) returns False and leaves
\* pending_otps as it was.
C20_VerifyOutcomes ==
    [][(paymentVars' # paymentVars /\ outcome'.op = "verify_otp")
       => LET id == outcome'.mandate_id
              code == outcome'.arg
          IN  IF id \in DOMAIN pending_otps /\ pending_otps[id] = code
              THEN /\ outcome'.value = "True"
                   /\ pending_otps' = Restrict(pending_otps, DOMAIN pending_otps \ {id})
              ELSE /\ outcome'.value = "False"
                   /\ pending_otps' = pending_otps]_vars

\* verify_otp has refused a wrong code, and the stored code is still there
C20_Witness ==
    /\ outcome.op = "verify_otp"
    /\ outcome.value = "False"
    /\ outcome.mandate_id \in DOMAIN pending_otps
    /\ pending_otps[outcome.mandate_id] # outcome.arg

C16_ConcurrentVerifyAtomic ==
    \A t1 \in Threads :
        /\ verifiers[t1].result \in {NoResult, "True", "False"}
        /\ \A t2 \in Threads \ {t1} :
              verifiers[t1].mandate_id = verifiers[t2].mandate_id
              => ~(verifiers[t1].result = "True" /\ verifiers[t2].result = "True")

\* C17: whenever no add_to_checkout call is in progress, each product that
\* calls have added to a checkout has exactly one line item there, and its
\* quantity is the sum of the quantities of all those calls.
C17_ConcurrentAddsMerge ==
    (\A t \in Threads : adders[t].pc = "idle")
    => \A k \in DOMAIN added.quantity :
          /\ k[1] \in DOMAIN checkouts
          /\ Len(ItemsOfProduct(State, k[1], k[2])) = 1
          /\ ItemsOfProduct(State, k[1], k[2])[1].quantity = added.quantity[k]

====
